---- MODULE Spec2Model ----
(***************************************************************************)
(* Verlet rope simulation of src/script.js: Vector arithmetic, Dot.update, *)
(* Stick.update, Rope (create / pin / update) and the App driver           *)
(* (createRopes, resize, the pointer handlers of Mouse and the frame of    *)
(* render).                                                                *)
(*                                                                         *)
(* JavaScript numbers are modelled as decimal fixed-point values with four *)
(* fractional digits (an integer count of 1/Scale), plus the two special   *)
(* values the code can produce, NaN and +/-Infinity.  Every operation      *)
(* rounds its exact result to the nearest representable value, as IEEE-754 *)
(* does on its own (finer) grid.                                           *)
(***************************************************************************)
EXTENDS Integers, Sequences, FiniteSets, TLC

(***************************************************************************)
(* Numbers                                                                 *)
(***************************************************************************)
Scale == 10 ^ 4

Base == 2 ^ 15

Fin(n) == [k |-> "fin", v |-> n]

NaN == [k |-> "nan", v |-> 0]

Inf(s) == [k |-> "inf", v |-> s]

\* n whole units, e.g. the literal 40
Whole(n) == Fin(n * Scale)

\* the decimal literal n / d, e.g. 0.97 = Dec(97, 100)
Dec(n, d) == Fin((n * Scale) \div d)

IsNaN(a) == a.k = "nan"

IsFin(a) == a.k = "fin"

Abs(n) == IF n < 0 THEN -n ELSE n

Sign(n) == IF n < 0 THEN -1 ELSE 1

Max(a, b) == IF a >= b THEN a ELSE b

Min(a, b) == IF a <= b THEN a ELSE b

\* round(x * y / Scale) for x, y >= 0, without forming x * y
MulRoundNat(x, y) ==
  LET xh == x \div Scale
      xl == x % Scale
      yh == y \div Scale
      yl == y % Scale
  IN  xh * yh * Scale + xh * yl + xl * yh + ((xl * yl + (Scale \div 2)) \div Scale)

MulRound(a, b) == Sign(a) * Sign(b) * MulRoundNat(Abs(a), Abs(b))

\* <<q, r>> with r * 10^k = q * y + r', the k next decimal digits of r / y
RECURSIVE LongDiv(_, _, _)
LongDiv(r, y, k) ==
  IF k = 0 THEN <<0, r>>
  ELSE LET t == r * 10
           rest == LongDiv(t % y, y, k - 1)
       IN  <<(t \div y) * (10 ^ (k - 1)) + rest[1], rest[2]>>

\* round(x * Scale / y) for x >= 0, y > 0
DivRoundNat(x, y) ==
  LET d == LongDiv(x % y, y, 4)
  IN  (x \div y) * Scale + d[1] + (IF 2 * d[2] >= y THEN 1 ELSE 0)

DivRound(a, b) == Sign(a) * Sign(b) * DivRoundNat(Abs(a), Abs(b))

\* x^2 + y^2 >= r^2 for naturals below 2^30, compared limb by limb
SqGe(x, y, r) ==
  LET xh == x \div Base
      xl == x % Base
      yh == y \div Base
      yl == y % Base
      rh == r \div Base
      rl == r % Base
      c0 == xl * xl + yl * yl - rl * rl
      c1 == 2 * (xh * xl + yh * yl - rh * rl) + (c0 \div Base)
      c2 == xh * xh + yh * yh - rh * rh + (c1 \div Base)
  IN  c2 >= 0

\* the largest r in lo..hi with r^2 <= x^2 + y^2 (lo qualifies)
RECURSIVE SqrtSearch(_, _, _, _)
SqrtSearch(x, y, lo, hi) ==
  IF lo >= hi THEN lo
  ELSE LET mid == (lo + hi + 1) \div 2
       IN  IF SqGe(x, y, mid) THEN SqrtSearch(x, y, mid, hi)
           ELSE SqrtSearch(x, y, lo, mid - 1)

\* floor(sqrt(x^2 + y^2)) for x, y >= 0
ISqrtSum(x, y) == SqrtSearch(x, y, Max(x, y), Max(x, y) + (Min(x, y) \div 2) + 1)

\* round(sqrt(a^2 + b^2))
HypotRound(a, b) == (ISqrtSum(2 * Abs(a), 2 * Abs(b)) + 1) \div 2

FNeg(a) == [a EXCEPT !.v = -a.v]

FAdd(a, b) ==
  IF a.k = "fin" /\ b.k = "fin" THEN Fin(a.v + b.v)
  ELSE IF IsNaN(a) \/ IsNaN(b) THEN NaN
  ELSE IF a.k = "inf" THEN (IF b.k = "inf" /\ b.v # a.v THEN NaN ELSE a)
  ELSE IF b.k = "inf" THEN b
  ELSE Fin(a.v + b.v)

FSub(a, b) == FAdd(a, FNeg(b))

FMul(a, b) ==
  IF a.k = "fin" /\ b.k = "fin" THEN Fin(MulRound(a.v, b.v))
  ELSE IF IsNaN(a) \/ IsNaN(b) THEN NaN
  ELSE IF a.k = "inf" \/ b.k = "inf"
       THEN (IF a.v = 0 \/ b.v = 0 THEN NaN ELSE Inf(Sign(a.v) * Sign(b.v)))
  ELSE Fin(MulRound(a.v, b.v))

FDiv(a, b) ==
  IF a.k = "fin" /\ b.k = "fin" /\ b.v # 0 THEN Fin(DivRound(a.v, b.v))
  ELSE IF IsNaN(a) \/ IsNaN(b) THEN NaN
  ELSE IF a.k = "inf" THEN (IF b.k = "inf" THEN NaN ELSE Inf(Sign(a.v) * Sign(b.v)))
  ELSE IF b.k = "inf" THEN Fin(0)
  ELSE IF b.v = 0 THEN (IF a.v = 0 THEN NaN ELSE Inf(Sign(a.v)))
  ELSE Fin(DivRound(a.v, b.v))

\* Math.sqrt(a * a + b * b)
FHypot(a, b) ==
  IF a.k = "fin" /\ b.k = "fin" THEN Fin(HypotRound(a.v, b.v))
  ELSE IF IsNaN(a) \/ IsNaN(b) THEN NaN
  ELSE IF a.k = "inf" \/ b.k = "inf" THEN Inf(1)
  ELSE Fin(HypotRound(a.v, b.v))

\* a < b; false when either is NaN
FLt(a, b) ==
  IF a.k = "fin" /\ b.k = "fin" THEN a.v < b.v
  ELSE IF IsNaN(a) \/ IsNaN(b) THEN FALSE
  ELSE IF a.k = "inf" THEN a.v < 0 /\ ~(b.k = "inf" /\ b.v < 0)
  ELSE IF b.k = "inf" THEN b.v > 0
  ELSE a.v < b.v

FGt(a, b) == FLt(b, a)

(***************************************************************************)
(* Vector                                                                  *)
(***************************************************************************)
\* `x || 0`: NaN and 0 are falsy
OrZero(a) == IF IsNaN(a) THEN Fin(0) ELSE a

\* function Vector(x, y)
Vector(x, y) == [x |-> OrZero(x), y |-> OrZero(y)]

\* Vector.sub(v1, v2): a new Vector
VectorSub(v1, v2) == Vector(FSub(v1.x, v2.x), FSub(v1.y, v2.y))

\* v.add(w), in place
VectorAdd(v, w) == [x |-> FAdd(v.x, w.x), y |-> FAdd(v.y, w.y)]

\* v.sub(w), in place
VectorSubFrom(v, w) == [x |-> FSub(v.x, w.x), y |-> FSub(v.y, w.y)]

\* v.mult(n) for a number n, in place
VectorMult(v, n) == [x |-> FMul(v.x, n), y |-> FMul(v.y, n)]

\* v.setXY(x, y)
VectorSetXY(x, y) == [x |-> x, y |-> y]

\* v.dist(w)
VectorDist(v, w) == FHypot(FSub(v.x, w.x), FSub(v.y, w.y))

(***************************************************************************)
(* Mouse                                                                   *)
(***************************************************************************)
MouseRadius == Whole(40)

\* the far-off-screen position of the constructor and of touchend / touchcancel
Sentinel == VectorSetXY(Whole(-1000), Whole(-1000))

(***************************************************************************)
(* Dot                                                                     *)
(***************************************************************************)
DotRadius == Whole(1)

DotFriction == Dec(97, 100)

DotGravity == Vector(Fin(0), Dec(6, 10))

DotMass == Whole(1)

SnapForce == Dec(6, 10)

NudgeScale == Dec(1, 10000)

\* mouse.radius + this.radius
MouseReach == FAdd(MouseRadius, DotRadius)

\* new Dot(x, y)
DotNew(x, y) ==
  [pos |-> Vector(x, y), oldPos |-> Vector(x, y), gravity |-> DotGravity,
   pinned |-> FALSE, distMouse |-> Whole(1000)]

\* lines 39-44 of Dot.update: the Verlet step
DotIntegrate(dot) ==
  LET vel == VectorAdd(VectorMult(VectorSub(dot.pos, dot.oldPos), DotFriction),
                       dot.gravity)
  IN  [dot EXCEPT !.oldPos = VectorSetXY(dot.pos.x, dot.pos.y),
                  !.pos = VectorAdd(dot.pos, vel)]

\* force = (mouse.radius - distMouse) / mouse.radius, clamped below at 0
DotForce(distMouse) ==
  LET force == FDiv(FSub(MouseRadius, distMouse), MouseRadius)
  IN  IF FLt(force, Fin(0)) THEN Fin(0) ELSE force

\* a slip of DotNudges: the threshold itself still nudges
DotNudgesAtThreshold(force) == ~FGt(force, SnapForce)

\* `if (force < 0.6)`: the nudge branch; otherwise the snap branch
DotNudges(force) == FLt(force, SnapForce)

\* a slip of DotNudge: the scaled direction is added
DotNudgeAdded(pos, direction, force) ==
  VectorAdd(pos, VectorMult(VectorMult(direction, force), NudgeScale))

\* `this.pos.sub(direction.mult(force).mult(0.0001))`
DotNudge(pos, direction, force) ==
  VectorSubFrom(pos, VectorMult(VectorMult(direction, force), NudgeScale))

\* lines 46-60 of Dot.update: the pointer interaction
DotPointer(dot, mousePos) ==
  LET d == VectorSub(dot.pos, mousePos)
      distMouse == FHypot(d.x, d.y)
      direction == Vector(FDiv(d.x, distMouse), FDiv(d.y, distMouse))
      force == DotForce(distMouse)
      seen == [dot EXCEPT !.distMouse = distMouse]
  IN  IF FGt(distMouse, MouseReach) THEN seen
      ELSE IF DotNudges(force)
           THEN [seen EXCEPT !.pos = DotNudge(dot.pos, direction, force)]
           ELSE [seen EXCEPT !.pos = VectorSetXY(mousePos.x, mousePos.y)]

\* Dot.update(mouse)
DotUpdate(dot, mousePos) ==
  IF dot.pinned THEN dot ELSE DotPointer(DotIntegrate(dot), mousePos)

(***************************************************************************)
(* Stick: startPoint and endPoint are indices into the rope's dots         *)
(***************************************************************************)
StickTension == Whole(1)

Half == Dec(5, 10)

\* m1 = endPoint.mass / m and m2 = startPoint.mass / m, with m the sum of the two masses
StickM1 == FDiv(DotMass, FAdd(DotMass, DotMass))

StickM2 == FDiv(DotMass, FAdd(DotMass, DotMass))

\* new Stick(p1, p2) for dots[a], dots[b]
StickNew(dots, a, b) ==
  [startPoint |-> a, endPoint |-> b, length |-> VectorDist(dots[a].pos, dots[b].pos)]

\* a slip of StickOffset: the difference is taken as dist - length
StickOffsetReversed(dots, stick) ==
  LET s == dots[stick.startPoint]
      e == dots[stick.endPoint]
      dx == FSub(e.pos.x, s.pos.x)
      dy == FSub(e.pos.y, s.pos.y)
      dist == FHypot(dx, dy)
      diff == FMul(FDiv(FSub(dist, stick.length), dist), StickTension)
  IN  [x |-> FMul(FMul(dx, diff), Half), y |-> FMul(FMul(dy, diff), Half)]

\* lines 95-101 of Stick.update: offsetX and offsetY
StickOffset(dots, stick) ==
  LET s == dots[stick.startPoint]
      e == dots[stick.endPoint]
      dx == FSub(e.pos.x, s.pos.x)
      dy == FSub(e.pos.y, s.pos.y)
      dist == FHypot(dx, dy)
      diff == FMul(FDiv(FSub(stick.length, dist), dist), StickTension)
  IN  [x |-> FMul(FMul(dx, diff), Half), y |-> FMul(FMul(dy, diff), Half)]

\* a slip of StickUpdate: the start point is moved without looking at pinned
StickUpdateStartUnchecked(dots, stick) ==
  LET s == dots[stick.startPoint]
      e == dots[stick.endPoint]
      offset == StickOffset(dots, stick)
      s2 == [s EXCEPT !.pos = [x |-> FSub(s.pos.x, FMul(offset.x, StickM1)),
                               y |-> FSub(s.pos.y, FMul(offset.y, StickM1))]]
      e2 == IF e.pinned THEN e
            ELSE [e EXCEPT !.pos = [x |-> FAdd(e.pos.x, FMul(offset.x, StickM2)),
                                    y |-> FAdd(e.pos.y, FMul(offset.y, StickM2))]]
  IN  [dots EXCEPT ![stick.startPoint] = s2, ![stick.endPoint] = e2]

\* Stick.update(): the dots after one relaxation of the stick
StickUpdate(dots, stick) ==
  LET s == dots[stick.startPoint]
      e == dots[stick.endPoint]
      offset == StickOffset(dots, stick)
      s2 == IF s.pinned THEN s
            ELSE [s EXCEPT !.pos = [x |-> FSub(s.pos.x, FMul(offset.x, StickM1)),
                                    y |-> FSub(s.pos.y, FMul(offset.y, StickM1))]]
      e2 == IF e.pinned THEN e
            ELSE [e EXCEPT !.pos = [x |-> FAdd(e.pos.x, FMul(offset.x, StickM2)),
                                    y |-> FAdd(e.pos.y, FMul(offset.y, StickM2))]]
  IN  [dots EXCEPT ![stick.startPoint] = s2, ![stick.endPoint] = e2]

(***************************************************************************)
(* Rope                                                                    *)
(***************************************************************************)
RopeIterations == 10

DefaultSegments == 10

DefaultGap == Whole(15)

\* Rope.create(): the dots, then the sticks chaining them
RopeCreate(x, y, segments, gap) ==
  LET n == IF segments > 0 THEN segments ELSE 0
      dots == [i \in 1..n |-> DotNew(x, FAdd(y, FMul(Whole(i - 1), gap)))]
      sticks == [i \in 1..(IF n > 0 THEN n - 1 ELSE 0) |-> StickNew(dots, i, i + 1)]
  IN  [dots |-> dots, sticks |-> sticks]

\* new Rope(config): `config.segments || 10`, `config.gap || 15`
RopeNew(config) ==
  LET segments == IF config.segments = 0 THEN DefaultSegments ELSE config.segments
      gap == IF config.gap = Fin(0) \/ IsNaN(config.gap) THEN DefaultGap ELSE config.gap
      made == RopeCreate(config.x, config.y, segments, gap)
  IN  [x |-> config.x, y |-> config.y, segments |-> segments, gap |-> gap,
       dots |-> made.dots, sticks |-> made.sticks]

\* Rope.pin(index), for an index that has a dot
RopePin(rope, index) == [rope EXCEPT !.dots[index + 1].pinned = TRUE]

\* the first loop of Rope.update: every dot's update
RopeUpdateDots(rope, mousePos) ==
  [rope EXCEPT !.dots = [i \in 1..Len(rope.dots) |-> DotUpdate(rope.dots[i], mousePos)]]

\* a slip of RopeSteps: a single pass over the sticks
RopeStepsOnePass(rope) == Len(rope.sticks)

\* the number of Stick.update calls of one Rope.update
RopeSteps(rope) == RopeIterations * Len(rope.sticks)

\* the k-th Stick.update call of a Rope.update, k in 1..RopeSteps(rope)
RopeUpdateStick(rope, k) ==
  [rope EXCEPT !.dots =
     StickUpdate(rope.dots, rope.sticks[((k - 1) % Len(rope.sticks)) + 1])]

\* the calls k, k+1, ... of the second loop of Rope.update
RECURSIVE RopeRelax(_, _)
RopeRelax(rope, k) ==
  IF k > RopeSteps(rope) THEN rope ELSE RopeRelax(RopeUpdateStick(rope, k), k + 1)

\* Rope.update(mouse)
RopeUpdate(rope, mousePos) == RopeRelax(RopeUpdateDots(rope, mousePos), 1)

(***************************************************************************)
(* App                                                                     *)
(***************************************************************************)
VARIABLES
  ropes,     \* app.ropes: a sequence of [r |-> Rope, made |-> the createRopes call that built it]
  mouse,     \* app.mouse.pos
  view,      \* App.width, App.height
  calls,     \* the number of createRopes calls so far
  frames,    \* the number of frames that updated and drew
  present,   \* whether a pointer is over the canvas (mouse) or on it (touch)
  seen,      \* what the last frame iterated
  scenario,  \* a single rope's test set-up
  rope,      \* the single rope
  pc,        \* where the single rope's run is
  step,      \* the Stick.update calls done in the rope's current tick
  ticks,     \* the Rope.update calls completed on the single rope
  trail,     \* | distance - rest length | of the first stick after the last two Stick.update calls
  dot,       \* a single dot
  before,    \* the single dot before its last update
  updates    \* the Dot.update calls done on the single dot

vars == <<ropes, mouse, view, calls, frames, present, seen,
          scenario, rope, pc, step, ticks, trail, dot, before, updates>>

appVars == <<ropes, view, calls, frames, present, seen>>

ropeVars == <<scenario, rope, pc, step, ticks, trail>>

dotVars == <<dot, before, updates>>

MaxFrames == 2

MaxCalls == 3

MaxWidth == 50

MaxTicks == 3

MaxUpdates == 2

Segments == 10

\* values Math.random() may return, read cyclically by the calls of one createRopes
RandomStreams == { <<Fin(0), Fin(0), Dec(1, 2), Dec(1, 2)>>, <<Dec(1, 2), Fin(0)>> }

Pick(stream, n) == stream[((n - 1) % Len(stream)) + 1]

\* randomNumBetween(min, max) with Math.random() = r
randomNumBetween(r, min, max) == FAdd(FMul(r, FSub(max, min)), min)

\* a slip of RopeLoop: `i < TOTAL`
RECURSIVE RopeLoopToTotal(_, _)
RopeLoopToTotal(i, total) ==
  IF FLt(Whole(i), total) THEN RopeLoopToTotal(i + 1, total) ELSE i

\* the trip count of `for (let i = 0; i < TOTAL + 1; i++)`
RECURSIVE RopeLoop(_, _)
RopeLoop(i, total) ==
  IF FLt(Whole(i), FAdd(total, Whole(1))) THEN RopeLoop(i + 1, total) ELSE i

\* the number of ropes createRopes pushes for App.width = width
RopeCount(width) == RopeLoop(0, FMul(Whole(width), Dec(6, 100)))

\* the rope of the i-th iteration (i = 0, 1, ...) of createRopes
AppRope(v, stream, i) ==
  LET x == randomNumBetween(Pick(stream, 2 * i + 1),
                            FMul(Whole(v.width), Dec(3, 10)), FMul(Whole(v.width), Dec(7, 10)))
      gap == randomNumBetween(Pick(stream, 2 * i + 2),
                              FMul(Whole(v.height), Dec(5, 100)),
                              FMul(Whole(v.height), Dec(8, 100)))
  IN  RopePin(RopeNew([x |-> x, y |-> Fin(0), gap |-> gap, segments |-> Segments]), 0)

\* a slip of createRopes: the pushes go onto the old collection
AppCreateRopesOntoOld(old, v, stream, call) ==
  old \o [i \in 1..RopeCount(v.width) |-> [r |-> AppRope(v, stream, i - 1), made |-> call]]

\* createRopes(): `this.ropes = []`, then one push per iteration
AppCreateRopes(old, v, stream, call) ==
  <<>> \o [i \in 1..RopeCount(v.width) |-> [r |-> AppRope(v, stream, i - 1), made |-> call]]

Viewports == { [width |-> 10, height |-> 200], [width |-> 20, height |-> 200] }

FirstViewports == { [width |-> 10, height |-> 200] }

AllWidths == { [width |-> w, height |-> 200] : w \in 1..MaxWidth }

\* pointer positions the events deliver
MousePoints ==
  { VectorSetXY(Whole(3), Whole(0)), VectorSetXY(Whole(3), Whole(10)) }

IdleRope == [scenario |-> <<>>, rope |-> <<>>, pc |-> "idle", step |-> 0, ticks |-> 0,
             trail |-> <<0, 0>>]

IdleDot == [dot |-> <<>>, before |-> <<>>, updates |-> 0]

IdleApp == [ropes |-> <<>>, view |-> [width |-> 0, height |-> 0], calls |-> 0,
            frames |-> 0, present |-> FALSE, seen |-> <<>>]

RopeIdle ==
  /\ scenario = IdleRope.scenario /\ rope = IdleRope.rope /\ pc = IdleRope.pc
  /\ step = IdleRope.step /\ ticks = IdleRope.ticks /\ trail = IdleRope.trail

DotIdle == dot = IdleDot.dot /\ before = IdleDot.before /\ updates = IdleDot.updates

AppIdle ==
  /\ ropes = IdleApp.ropes /\ view = IdleApp.view /\ calls = IdleApp.calls
  /\ frames = IdleApp.frames /\ present = IdleApp.present /\ seen = IdleApp.seen

\* new App(): resize() builds the ropes once, the constructor's createRopes() again
AppNew(viewports) ==
  \E v \in viewports, s1 \in RandomStreams, s2 \in RandomStreams :
    /\ view = v
    /\ ropes = AppCreateRopes(AppCreateRopes(<<>>, v, s1, 1), v, s2, 2)
    /\ calls = 2
    /\ mouse = Sentinel
    /\ frames = 0
    /\ present = FALSE
    /\ seen = [at |-> 0, width |-> 0, mouse |-> Sentinel, ropes |-> <<>>]

Init == AppNew(FirstViewports) /\ RopeIdle /\ DotIdle

\* canvas.onmousemove
MouseMove(p) ==
  /\ mouse' = VectorSetXY(p.x, p.y)
  /\ present' = TRUE
  /\ UNCHANGED <<ropes, view, calls, frames, seen, ropeVars, dotVars>>

\* the mouse leaves the canvas: no handler is registered for it
MouseLeave ==
  /\ present
  /\ present' = FALSE
  /\ UNCHANGED <<mouse, ropes, view, calls, frames, seen, ropeVars, dotVars>>

\* canvas.ontouchmove
TouchMove(p) ==
  /\ mouse' = VectorSetXY(p.x, p.y)
  /\ present' = TRUE
  /\ UNCHANGED <<ropes, view, calls, frames, seen, ropeVars, dotVars>>

\* canvas.ontouchend
TouchEnd ==
  /\ mouse' = VectorSetXY(Whole(-1000), Whole(-1000))
  /\ present' = FALSE
  /\ UNCHANGED <<ropes, view, calls, frames, seen, ropeVars, dotVars>>

\* canvas.ontouchcancel
TouchCancel ==
  /\ mouse' = VectorSetXY(Whole(-1000), Whole(-1000))
  /\ present' = FALSE
  /\ UNCHANGED <<ropes, view, calls, frames, seen, ropeVars, dotVars>>

\* App.resize() on a window resize event to viewport v
Resize(v, stream) ==
  /\ calls < MaxCalls
  /\ view' = v
  /\ ropes' = AppCreateRopes(ropes, v, stream, calls + 1)
  /\ calls' = calls + 1
  /\ UNCHANGED <<mouse, frames, present, seen, ropeVars, dotVars>>

\* what a frame finds in a rope it iterates
Glimpse(entry) ==
  [made |-> entry.made, dots |-> Len(entry.r.dots), sticks |-> Len(entry.r.sticks),
   pinned |-> Len(entry.r.dots) > 0 /\ entry.r.dots[1].pinned]

\* one frame of render() that is due: every rope is updated, then drawn
Frame ==
  /\ frames < MaxFrames
  /\ seen' = [at |-> calls, width |-> view.width, mouse |-> mouse,
              ropes |-> [i \in 1..Len(ropes) |-> Glimpse(ropes[i])]]
  /\ ropes' = [i \in 1..Len(ropes) |-> [ropes[i] EXCEPT !.r = RopeUpdate(@, mouse)]]
  /\ frames' = frames + 1
  /\ UNCHANGED <<mouse, view, calls, present, ropeVars, dotVars>>

Next ==
  \/ Frame
  \/ \E p \in MousePoints : MouseMove(p)
  \/ MouseLeave
  \/ \E p \in MousePoints : TouchMove(p)
  \/ TouchEnd
  \/ TouchCancel
  \/ \E v \in Viewports, s \in RandomStreams : Resize(v, s)

Spec == Init /\ [][Next]_vars

(***************************************************************************)
(* Resizes alone, over every width up to MaxWidth                          *)
(***************************************************************************)
InitCreate == AppNew(AllWidths) /\ RopeIdle /\ DotIdle

NextCreate == \E v \in AllWidths, s \in RandomStreams : Resize(v, s)

SpecCreate == InitCreate /\ [][NextCreate]_vars

(***************************************************************************)
(* One rope, stepped through Rope.update one Stick.update at a time        *)
(***************************************************************************)
ZeroVector == VectorSetXY(Fin(0), Fin(0))

\* the rope's config, the gravity given to its dots, and the displacement of
\* its last dot (position and old position alike) before the first tick
Scenarios ==
  [config : [x : {Fin(0)}, y : {Fin(0)}, segments : {-1, 0, 1, 2, 3},
             gap : {Fin(0), Whole(10)}],
   gravity : {ZeroVector, DotGravity},
   pull : {ZeroVector, VectorSetXY(Fin(0), Whole(4)), VectorSetXY(Fin(0), Whole(-4)),
           VectorSetXY(Whole(3), Whole(4))}]

\* the Rope constructor has no check that throws
RopeNewThrows(config) == FALSE

\* | distance(dots) - length | of stick j, in units of 1 / Scale
StickError(r, j) ==
  IF j > Len(r.sticks) THEN 0
  ELSE Abs(VectorDist(r.dots[r.sticks[j].startPoint].pos,
                      r.dots[r.sticks[j].endPoint].pos).v - r.sticks[j].length.v)

InitRope ==
  /\ scenario \in Scenarios
  /\ rope = <<>>
  /\ pc = "start"
  /\ step = 0
  /\ ticks = 0
  /\ trail = <<0, 0>>
  /\ mouse = Sentinel
  /\ AppIdle
  /\ DotIdle

\* new Rope(config)
Construct ==
  /\ pc = "start"
  /\ IF RopeNewThrows(scenario.config)
     THEN pc' = "threw" /\ rope' = rope
     ELSE pc' = "built" /\ rope' = RopeNew(scenario.config)
  /\ UNCHANGED <<scenario, step, ticks, trail, mouse, appVars, dotVars>>

\* rope.pin(0): `this.dots[0].pinned = true` is a TypeError when there is no dot
Pin ==
  /\ pc = "built"
  /\ IF Len(rope.dots) > 0
     THEN pc' = "pinned" /\ rope' = RopePin(rope, 0)
     ELSE pc' = "pinThrew" /\ rope' = rope
  /\ UNCHANGED <<scenario, step, ticks, trail, mouse, appVars, dotVars>>

\* the set-up writes each dot's gravity and moves the last dot
Arrange ==
  /\ pc = "pinned"
  /\ LET n == Len(rope.dots)
         moved(d) == [d EXCEPT !.pos = VectorAdd(d.pos, scenario.pull),
                               !.oldPos = VectorAdd(d.oldPos, scenario.pull)]
         placed == [rope EXCEPT !.dots =
                      [i \in 1..n |->
                         LET g == [rope.dots[i] EXCEPT !.gravity = scenario.gravity]
                         IN  IF i = n /\ n > 1 THEN moved(g) ELSE g]]
     IN  /\ rope' = placed
         /\ trail' = <<StickError(placed, 1), StickError(placed, 1)>>
  /\ pc' = "ready"
  /\ UNCHANGED <<scenario, step, ticks, mouse, appVars, dotVars>>

\* the first loop of Rope.update(mouse)
UpdateDots ==
  /\ pc = "ready"
  /\ ticks < MaxTicks
  /\ rope' = RopeUpdateDots(rope, mouse)
  /\ step' = 0
  /\ IF RopeSteps(rope) = 0
     THEN pc' = "ready" /\ ticks' = ticks + 1
     ELSE pc' = "relax" /\ ticks' = ticks
  /\ UNCHANGED <<scenario, trail, mouse, appVars, dotVars>>

\* the next Stick.update of the second loop of Rope.update(mouse)
UpdateStick ==
  /\ pc = "relax"
  /\ rope' = RopeUpdateStick(rope, step + 1)
  /\ step' = step + 1
  /\ trail' = <<trail[2], StickError(rope', 1)>>
  /\ IF step + 1 = RopeSteps(rope)
     THEN pc' = "ready" /\ ticks' = ticks + 1
     ELSE pc' = "relax" /\ ticks' = ticks
  /\ UNCHANGED <<scenario, mouse, appVars, dotVars>>

NextRope == Construct \/ Pin \/ Arrange \/ UpdateDots \/ UpdateStick

SpecRope == InitRope /\ [][NextRope]_vars

(***************************************************************************)
(* One dot, updated against a fixed pointer                                *)
(***************************************************************************)
DotStarts == { VectorSetXY(Fin(0), Dec(94, 10)), VectorSetXY(Whole(2), Whole(10)) }

DotVelocities == { ZeroVector, VectorSetXY(Whole(1), Fin(0)) }

DotPointers ==
  { VectorSetXY(Fin(0), Whole(10)), VectorSetXY(Fin(0), Whole(26)),
    VectorSetXY(Whole(16), Whole(10)), VectorSetXY(Fin(0), Dec(2601, 100)),
    VectorSetXY(Fin(0), Whole(28)), VectorSetXY(Whole(12), Whole(26)),
    VectorSetXY(Whole(-18), Whole(10)), VectorSetXY(Fin(0), Dec(495, 10)),
    VectorSetXY(Fin(0), Dec(505, 10)), VectorSetXY(Fin(0), Whole(60)),
    VectorSetXY(Whole(3), Whole(14)), Sentinel }

InitDot ==
  /\ \E p \in DotStarts, v \in DotVelocities, pinned \in BOOLEAN :
       dot = [pos |-> p, oldPos |-> VectorSubFrom(p, v), gravity |-> DotGravity,
              pinned |-> pinned, distMouse |-> Whole(1000)]
  /\ before = dot
  /\ updates = 0
  /\ mouse \in DotPointers
  /\ AppIdle
  /\ RopeIdle

\* dot.update(mouse)
DotStep ==
  /\ updates < MaxUpdates
  /\ before' = dot
  /\ dot' = DotUpdate(dot, mouse)
  /\ updates' = updates + 1
  /\ UNCHANGED <<mouse, appVars, ropeVars>>

NextDot == DotStep

SpecDot == InitDot /\ [][NextDot]_vars

(***************************************************************************)
(* Properties                                                              *)
(***************************************************************************)
\* the dots of the app's ropes, as <<rope index, dot index>>
AppDots == { <<i, j>> \in (1..Len(ropes)) \X (1..Segments) : j <= Len(ropes[i].r.dots) }

\* where Rope.create() put dot j of rope r
CreatedAt(r, j) == VectorSetXY(r.x, FAdd(r.y, FMul(Whole(j - 1), r.gap)))

\* ceil(width * 0.06) + 1 and floor(width * 0.06) + 1, in integers
CeilCount(width) == ((6 * width + 99) \div 100) + 1

FloorCount(width) == ((6 * width) \div 100) + 1

\* C1: a pinned dot of the app's ropes is where it was created and pinned,
\* whatever frames have run and wherever the pointer was.
C1_PinnedInvariance ==
  \A d \in AppDots :
    ropes[d[1]].r.dots[d[2]].pinned
      => ropes[d[1]].r.dots[d[2]].pos = CreatedAt(ropes[d[1]].r, d[2])

\* C1 witness: a frame has run with the pointer exactly on a pinned dot of a
\* rope it updated, and that dot is still where it was created.
C1_Witness ==
  /\ frames > 0
  /\ seen.at = calls
  /\ \E d \in AppDots :
       /\ ropes[d[1]].r.dots[d[2]].pinned
       /\ seen.mouse = CreatedAt(ropes[d[1]].r, d[2])
       /\ ropes[d[1]].r.dots[d[2]].pos = seen.mouse

\* C2: no dot position of the app's ropes is ever NaN or infinite.
C2_NoNaN ==
  \A d \in AppDots :
    /\ IsFin(ropes[d[1]].r.dots[d[2]].pos.x)
    /\ IsFin(ropes[d[1]].r.dots[d[2]].pos.y)

\* C3: whenever no pointer is over or on the canvas, the mouse position the
\* next frame reads is the sentinel (-1000, -1000).
C3_AbsentIsSentinel == ~present => mouse = Sentinel

\* C4 as claimed: the number of ropes is floor(width * 0.06) + 1.
C4_FloorCount == Len(ropes) = FloorCount(view.width)

\* C4 as amended: the number of ropes is ceil(width * 0.06) + 1, after the
\* constructor and after every resize.
C4_CeilCount == Len(ropes) = CeilCount(view.width)

\* C4 witness: a resize to a width whose 6% is not whole has left one rope
\* more than floor(width * 0.06) + 1.
C4_Witness ==
  /\ calls = 3
  /\ (6 * view.width) % 100 # 0
  /\ Len(ropes) = FloorCount(view.width) + 1

\* C5: a frame iterates exactly the ropes of the latest createRopes call, all of
\* them, each fully built with its dot 0 pinned; and app.ropes is such a
\* collection in every state a frame can start from.
C5_FrameSeesLatest ==
  /\ \A i \in 1..Len(seen.ropes) :
       /\ seen.ropes[i].made = seen.at
       /\ seen.ropes[i].dots = Segments
       /\ seen.ropes[i].sticks = Segments - 1
       /\ seen.ropes[i].pinned
  /\ frames > 0 => Len(seen.ropes) = CeilCount(seen.width)
  /\ \A i \in 1..Len(ropes) :
       /\ ropes[i].made = calls
       /\ Len(ropes[i].r.dots) = Segments
       /\ Len(ropes[i].r.sticks) = Segments - 1
       /\ ropes[i].r.dots[1].pinned
  /\ Len(ropes) = CeilCount(view.width)

\* C5 witness: a frame has run after a resize replaced the ropes an earlier
\* frame had updated.
C5_Witness == frames > 1 /\ calls > 2 /\ seen.at = calls /\ Len(seen.ropes) > 0

\* the case of C6: a rope of two dots, dot 0 pinned, zero gravity, the pointer
\* at the sentinel, the free dot moved off the rest length before the first tick
C6_Case ==
  /\ pc \in {"relax", "ready"}
  /\ Len(rope.dots) = 2
  /\ scenario.gravity = ZeroVector
  /\ scenario.pull # ZeroVector
  /\ mouse = Sentinel

\* C6 as claimed: after every Stick.update, | distance - rest length | is no
\* larger than after the Stick.update before it, within a tick and across ticks.
C6_ErrorNeverGrows == (C6_Case /\ step >= 1) => trail[2] <= trail[1]

\* C6 as amended: within one tick, every Stick.update after the tick's first
\* leaves | distance - rest length | at no more than 3/4 of what the previous
\* Stick.update left (up to two rounding units of 1 / Scale).
C6_ErrorShrinksWithinTick ==
  (C6_Case /\ step >= 2) => 4 * trail[2] <= 3 * trail[1] + 8

\* C6 witness: in a later tick, a Stick.update after the first has shrunk the error.
C6_Witness == C6_Case /\ step >= 2 /\ ticks >= 1 /\ trail[2] < trail[1] /\ trail[2] > 0

\* the case of C7: segments 3, gap 10, origin (0, 0), default gravity, nothing
\* displaced, one whole Rope.update done
C7_Case ==
  /\ pc = "ready"
  /\ ticks = 1
  /\ scenario = [config |-> [x |-> Fin(0), y |-> Fin(0), segments |-> 3, gap |-> Whole(10)],
                 gravity |-> DotGravity, pull |-> ZeroVector]
  /\ mouse = Sentinel

C7_Moved ==
  /\ rope.dots[1].pos = ZeroVector
  /\ rope.dots[2].pos.y.v > 10 * Scale
  /\ rope.dots[3].pos.y.v > 20 * Scale

\* C7 as claimed: after one tick dot 0 is at (0, 0), dots 1 and 2 are below 10
\* and 20, and both sticks are within 0.01 of the rest length 10.
C7_WithinHundredth ==
  C7_Case => /\ C7_Moved
             /\ 100 * StickError(rope, 1) <= Scale
             /\ 100 * StickError(rope, 2) <= Scale

\* C7 as amended: after one tick dot 0 is at (0, 0), dots 1 and 2 are below 10
\* and 20, and the sticks are stretched beyond the rest length 10 by between
\* 0.15 and 0.17 (first stick) and between 0.04 and 0.06 (second stick).
C7_AfterOneTick ==
  C7_Case => /\ C7_Moved
             /\ 100 * StickError(rope, 1) > 15 * Scale
             /\ 100 * StickError(rope, 1) < 17 * Scale
             /\ 100 * StickError(rope, 2) > 4 * Scale
             /\ 100 * StickError(rope, 2) < 6 * Scale
             /\ rope.dots[2].pos.y.v - rope.dots[1].pos.y.v > 10 * Scale
             /\ rope.dots[3].pos.y.v - rope.dots[2].pos.y.v > 10 * Scale

\* C7 witness: the scenario has run its one tick.
C7_Witness == C7_Case /\ step = 20 /\ rope.dots[1].pinned

\* the single dot's position after the integration step of its last update
Integrated == DotIntegrate(before).pos

\* its distance to the pointer there
IntegratedDist == VectorDist(Integrated, mouse)

\* the last update was of an unpinned dot that reached the pointer interaction
Interacted == updates > 0 /\ ~before.pinned /\ IsFin(IntegratedDist)

\* (mouse.radius - d) / mouse.radius >= 0.6, in integers
C8_Case == Interacted /\ 10 * (MouseRadius.v - IntegratedDist.v) >= 6 * MouseRadius.v

\* C8: when the force is at least 0.6 the dot ends exactly on the pointer, with
\* finite coordinates, and oldPos holds the position before the integration.
C8_SnapThreshold ==
  C8_Case => /\ dot.pos = mouse
             /\ IsFin(dot.pos.x) /\ IsFin(dot.pos.y)
             /\ dot.oldPos = before.pos

\* C8 witness: the dot was snapped from distance 0, and from the threshold
\* distance, in two runs; this is the distance 0 one.
C8_Witness == C8_Case /\ IntegratedDist = Fin(0) /\ dot.pos = mouse

\* 0 < (mouse.radius - d) / mouse.radius < 0.6, in integers
C9_Case ==
  /\ Interacted
  /\ MouseRadius.v - IntegratedDist.v > 0
  /\ 10 * (MouseRadius.v - IntegratedDist.v) < 6 * MouseRadius.v

\* the nudge was large enough to change the position
C9_Moved == dot.pos # Integrated

\* (distance to the pointer after the nudge)^2 - (distance before it)^2, which
\* is (p' - p) . ((p' - m) + (p - m))
C9_Change ==
  (dot.pos.x.v - Integrated.x.v) * (dot.pos.x.v + Integrated.x.v - 2 * mouse.x.v)
  + (dot.pos.y.v - Integrated.y.v) * (dot.pos.y.v + Integrated.y.v - 2 * mouse.y.v)

\* C9 as claimed: a nudge leaves the dot farther from the pointer than it was
\* (checked where the nudge is not below the resolution of the numbers).
C9_NudgeRepels == (C9_Case /\ C9_Moved) => C9_Change > 0

\* C9 as amended: a nudge never leaves the dot farther from the pointer, and
\* leaves it nearer whenever it changes the position.
C9_NudgeAttracts ==
  C9_Case => /\ C9_Change <= 0
             /\ C9_Moved => C9_Change < 0

\* C9 witness: a nudge has moved the dot nearer to the pointer.
C9_Witness == C9_Case /\ C9_Moved /\ C9_Change < 0

\* C10: a Rope constructed with config.segments < 2 threw at construction, and
\* every Rope that exists has at least 2 dots and 1 stick.
C10_ShortRopeThrows ==
  /\ (pc # "start" /\ pc # "idle" /\ scenario.config.segments < 2) => pc = "threw"
  /\ pc \in {"built", "pinned", "ready", "relax"}
       => Len(rope.dots) >= 2 /\ Len(rope.sticks) >= 1

====
